---- MODULE Spec2Model ----
(***************************************************************************)
(* TradingIndicators, preprocess/data_agent: the per-item stage graph      *)
(* (graph.py) and the checkpointed batch orchestrator (main.py,            *)
(* checkpoint_manager.py).                                                 *)
(*                                                                         *)
(* Two specifications share the module:                                    *)
(*   SpecGraph  one graph.invoke(initial_state): one action per node, the  *)
(*              conditional edges applied after each node;                 *)
(*   Spec       the orchestrator: processes (runs) of main.py on one       *)
(*              output directory, interrupts, and the checkpoint tool.     *)
(*              graph.invoke is the operator RunGraph, the iteration of    *)
(*              the same node and edge operators SpecGraph steps through.  *)
(***************************************************************************)
EXTENDS Integers, Sequences, FiniteSets, TLC

\* ------------------------------------------------------------------ bounds
\* Number of records in the input file.
MaxItems == 3
\* Number of processes (runs of main.py, uses of checkpoint_manager.py)
\* started on the output directory.
MaxRuns == 2
\* config.py sets BATCH_SIZE = 10; the model runs the same code with a
\* smaller threshold so that full and partial batches occur within MaxItems.
BATCH_SIZE == 2

\* ------------------------------------------------------- program constants
MAX_CONVERSION_ATTEMPTS == 5

None == "None"

\* Optional[bool] / Optional[str] values are the strings "None", "True",
\* "False", "code"; Python truthiness of such a value:
Truthy(x) == x \notin {None, "False", ""}

\* ------------------------------------------------------------------- items
\* An input record, by what the (deterministic) stages do with it:
\*   raises   classify_item raises on it (a record that is no dict, or whose
\*            source_code is no string): graph.invoke propagates the error
\*   cls      classify_item's type
\*   trading  main.py's is_strategy test on source_code
\*   filter   filter_data: "keep", "reject", or "error" (it raises)
\*   has_source  source_code is non-empty
\*   conv_at  the attempt at which convert() returns code (0: never)
\*   valid    validate() accepts the converted code
\*   aug_ok, sym_ok  the augmentation / symbol inference does not raise
\*   has_id   id and name are non-empty
ItemSpace ==
  { it \in [raises : BOOLEAN, cls : {"strategy", "indicator", "unknown"},
            trading : BOOLEAN, filter : {"keep", "reject", "error"},
            has_source : BOOLEAN, conv_at : 0..MAX_CONVERSION_ATTEMPTS,
            valid : BOOLEAN, aug_ok : BOOLEAN, sym_ok : BOOLEAN,
            has_id : BOOLEAN] :
      \* 'strategy(' in "" is False; classify_item on "" is 'unknown'
      /\ (~it.has_source => (~it.trading /\ it.cls = "unknown"))
      \* without source code convert() is never called
      /\ (~it.has_source => it.conv_at = 0) }

GoodItem ==
  [raises |-> FALSE, cls |-> "strategy", trading |-> FALSE, filter |-> "keep",
   has_source |-> TRUE, conv_at |-> 1, valid |-> TRUE, aug_ok |-> TRUE,
   sym_ok |-> TRUE, has_id |-> TRUE]

\* The records the orchestrator's input is drawn from.
SampleItems ==
  { GoodItem,                                        \* accepted, not is_strategy
    [GoodItem EXCEPT !.trading = TRUE],              \* accepted, is_strategy
    [GoodItem EXCEPT !.cls = "indicator"],           \* rejected by classifier
    [GoodItem EXCEPT !.raises = TRUE],               \* graph.invoke raises
    [GoodItem EXCEPT !.has_id = FALSE] }             \* accepted, empty id

\* ------------------------------------------------------ graph.py: state
initial_state ==
  [filter_result |-> None, converted_code |-> None, validation_result |-> None,
   augmented_description |-> None, reasoning |-> None, relevant_symbols |-> None,
   conversion_attempts |-> 0, error_message |-> None, status |-> "pending"]

\* ------------------------------------------------------ graph.py: nodes
classify_node(s, it) ==
  IF it.cls = "strategy"
    THEN [s EXCEPT !.status = "passed_classification"]
    ELSE [s EXCEPT !.status = "rejected_by_classifier",
                   !.error_message = "policy: only process strategies"]

filter_node(s, it) ==
  CASE it.filter = "keep" ->
         [s EXCEPT !.filter_result = "True", !.status = "filtered",
                   !.error_message = None]
    [] it.filter = "reject" ->
         [s EXCEPT !.filter_result = "False", !.status = "rejected_by_filter",
                   !.error_message = "rejection_reason"]
    [] OTHER ->
         [s EXCEPT !.filter_result = "False", !.status = "filter_error",
                   !.error_message = "Filter error"]

\* convert(source_code, feedback): code at attempt conv_at, an error before.
ConvertSucceeds(s, it) == it.conv_at = s.conversion_attempts + 1

code_converter_node_double_count(s, it) ==
  IF ~it.has_source
    THEN [s EXCEPT !.converted_code = None,
                   !.conversion_attempts = s.conversion_attempts + 1,
                   !.error_message = "No source code found",
                   !.status = "conversion_failed"]
    ELSE IF ConvertSucceeds(s, it)
      THEN [s EXCEPT !.converted_code = "code",
                     !.conversion_attempts = s.conversion_attempts + 1,
                     !.status = "converted"]
      ELSE [s EXCEPT !.converted_code = None,
                     !.conversion_attempts = s.conversion_attempts + 2,
                     !.error_message = "Conversion failed",
                     !.status = "conversion_error"]

code_converter_node_unchecked(s, it) ==
  IF ConvertSucceeds(s, it)
    THEN [s EXCEPT !.converted_code = "code",
                   !.conversion_attempts = s.conversion_attempts + 1,
                   !.status = "converted"]
    ELSE [s EXCEPT !.converted_code = None,
                   !.conversion_attempts = s.conversion_attempts + 1,
                   !.error_message = "Conversion failed",
                   !.status = "conversion_error"]

code_converter_node(s, it) ==
  IF ~it.has_source
    THEN [s EXCEPT !.converted_code = None,
                   !.conversion_attempts = s.conversion_attempts + 1,
                   !.error_message = "No source code found",
                   !.status = "conversion_failed"]
    ELSE IF ConvertSucceeds(s, it)
      THEN [s EXCEPT !.converted_code = "code",
                     !.conversion_attempts = s.conversion_attempts + 1,
                     !.status = "converted"]
      ELSE [s EXCEPT !.converted_code = None,
                     !.conversion_attempts = s.conversion_attempts + 1,
                     !.error_message = "Conversion failed",
                     !.status = "conversion_error"]

code_validator_node(s, it) ==
  IF ~Truthy(s.converted_code)
    THEN [s EXCEPT !.validation_result = "False", !.status = "validation_failed"]
    ELSE IF it.valid
      THEN [s EXCEPT !.validation_result = "True", !.status = "validated"]
      ELSE [s EXCEPT !.validation_result = "False",
                     !.error_message = "Validation failed",
                     !.status = "validation_rejected"]

data_aug_description_node(s, it) ==
  IF it.aug_ok
    THEN [s EXCEPT !.augmented_description = "best_analysis",
                   !.status = "description_processed"]
    ELSE [s EXCEPT !.augmented_description = "original_desc",
                   !.status = "description_error",
                   !.error_message = "Description augmentation failed"]

symbol_infer_node(s, it) ==
  IF it.sym_ok
    THEN [s EXCEPT !.relevant_symbols = "symbols", !.status = "symbols_inferred"]
    ELSE [s EXCEPT !.relevant_symbols = "[]",
                   !.status = "symbol_inference_error",
                   !.error_message = "Symbol inference failed"]

data_aug_reason_node(s, it) ==
  [s EXCEPT !.reasoning = "", !.status = "reasoning_added"]

reject_node_keeps_status(s, it) == s

reject_node(s, it) == [s EXCEPT !.status = "rejected"]

\* ------------------------------------------- graph.py: decision functions
should_retry_conversion_late(s) ==
  IF Truthy(s.converted_code) THEN "code_validator"
  ELSE IF s.conversion_attempts > MAX_CONVERSION_ATTEMPTS THEN "reject"
  ELSE "code_converter"

should_retry_conversion(s) ==
  IF Truthy(s.converted_code) THEN "code_validator"
  ELSE IF s.conversion_attempts >= MAX_CONVERSION_ATTEMPTS THEN "reject"
  ELSE "code_converter"

should_continue_after_validation_retry(s) ==
  IF Truthy(s.validation_result) THEN "data_aug_description" ELSE "code_converter"

should_continue_after_validation(s) ==
  IF Truthy(s.validation_result) THEN "data_aug_description" ELSE "reject"

should_classify_continue(s) ==
  IF s.status = "rejected_by_classifier" THEN "reject" ELSE "filter"

should_filter(s) ==
  IF Truthy(s.filter_result) THEN "code_converter" ELSE "reject"

\* ------------------------------------ graph.py: create_data_processing_graph
END == "END"
RAISED == "RAISED"

EntryPoint == "classify"

Nodes == {"classify", "filter", "code_converter", "code_validator",
          "data_aug_description", "symbol_infer", "data_aug_reason", "reject"}

RunNode(n, s, it) ==
  CASE n = "classify" -> classify_node(s, it)
    [] n = "filter" -> filter_node(s, it)
    [] n = "code_converter" -> code_converter_node(s, it)
    [] n = "code_validator" -> code_validator_node(s, it)
    [] n = "data_aug_description" -> data_aug_description_node(s, it)
    [] n = "symbol_infer" -> symbol_infer_node(s, it)
    [] n = "data_aug_reason" -> data_aug_reason_node(s, it)
    [] n = "reject" -> reject_node(s, it)

\* The keys of the mapping given to add_conditional_edges for node n.
EdgeKeys(n) ==
  CASE n = "classify" -> {"filter", "reject"}
    [] n = "filter" -> {"code_converter", "reject"}
    [] n = "code_converter" -> {"code_converter", "code_validator", "reject"}
    [] n = "code_validator" -> {"data_aug_description", "reject"}

\* The edge leaving the reject node.
RejectEdgeLoops == "code_converter"

RejectEdge == END

\* The node that runs after node n has produced state s.
Edge(n, s) ==
  CASE n = "classify" -> should_classify_continue(s)
    [] n = "filter" -> should_filter(s)
    [] n = "code_converter" -> should_retry_conversion(s)
    [] n = "code_validator" -> should_continue_after_validation(s)
    [] n = "data_aug_description" -> "symbol_infer"
    [] n = "symbol_infer" -> "data_aug_reason"
    [] n = "data_aug_reason" -> END
    [] n = "reject" -> RejectEdge

\* classify_node is the one node with no except clause around its work.
NodeRaises(n, it) == n = "classify" /\ it.raises

\* graph.invoke(initial_state): the traversal from node n in state s.
\* The result is [raised, state]; fuel bounds the recursion.
MaxSteps == MAX_CONVERSION_ATTEMPTS + 8

RECURSIVE Traverse(_, _, _, _)
Traverse(n, s, it, fuel) ==
  IF n = END \/ fuel = 0 THEN [raised |-> FALSE, state |-> s]
  ELSE IF NodeRaises(n, it) THEN [raised |-> TRUE, state |-> s]
  ELSE LET s2 == RunNode(n, s, it) IN Traverse(Edge(n, s2), s2, it, fuel - 1)

RunGraph(it) == Traverse(EntryPoint, initial_state, it, MaxSteps)


\* ------------------------------------------------------------------ state
VARIABLES
  \* one graph.invoke (SpecGraph)
  gitem,      \* the item's raw_data
  gnode,      \* the node to run next, END, or RAISED
  gs,         \* the DataProcessingState
  gprev,      \* the node that ran last
  gcalls,     \* code_converter invocations so far
  gfeedback,  \* the feedback (state's error_message) the last invocation read
  \* the orchestrator (Spec)
  data,       \* the records of the input file
  ckptFile,   \* processing_checkpoint.json: [exists, complete, rec]
  files,      \* the parquet artifacts written so far, in write order
  pc,         \* where the running process is; "idle" when there is none
  p,          \* the running DataProcessor's memory
  runlog,     \* a summary of the processes that have ended
  \* data_process_script: one worker-pool stage (SpecPool)
  pool,       \* the stage's call: its input, its futures, its result
  \* crawler/main_trading.py (SpecCrawler)
  crawlFile,  \* the detailed output file: its entries, by script_url
  crawler,    \* the running crawler's memory
  \* data_process_0/main.py (SpecDP0)
  dp0Data,    \* the records of the input file
  dp0File,    \* data_process_0's checkpoint file
  dp0         \* the running DataProcessor's memory

gvars == <<gitem, gnode, gs, gprev, gcalls, gfeedback>>
ovars == <<data, ckptFile, files, pc, p, runlog>>
cvars == <<pool, crawlFile, crawler, dp0Data, dp0File, dp0>>
vars == <<gitem, gnode, gs, gprev, gcalls, gfeedback,
          data, ckptFile, files, pc, p, runlog,
          pool, crawlFile, crawler, dp0Data, dp0File, dp0>>

\* ------------------------------------------------- main.py: DataProcessor
ZeroRej == [filter |-> 0, conversion |-> 0, validation |-> 0, other |-> 0]

\* The checkpoint dict.  strategy_stats / rejection_stats say whether the
\* key is present; rej is the value of "rejection_stats" when it is.  (The
\* counters inside _strategy_stats and the timestamp are not modelled.)
ZeroCheckpoint ==
  [last_processed_index |-> -1, processed_count |-> 0, rejected_count |-> 0,
   strategy_stats |-> FALSE, rejection_stats |-> FALSE, rej |-> ZeroRej]

\* processing_checkpoint.json: whether it exists, whether it holds a whole
\* JSON document (open(..., 'w') empties the file before json.dump fills it),
\* and the record it holds.
NoFile == [exists |-> FALSE, complete |-> TRUE, rec |-> ZeroCheckpoint]

\* The file as open(checkpoint_file, 'w') leaves it, before json.dump.
TruncatedFile == [exists |-> TRUE, complete |-> FALSE, rec |-> ZeroCheckpoint]

\* json.load(f) raises JSONDecodeError on a file that holds no whole document.
LoadRaises(file) == file.exists /\ ~file.complete

\* _process_item's return value: None, or the processed record.
NoneRecord ==
  [isNone |-> TRUE, idx |-> -1, id |-> FALSE, name |-> FALSE,
   description |-> None, reasoning |-> None, created_at |-> None,
   source_code |-> None, relevant_symbols |-> None]

ProcessedRecord(it, idx, result) ==
  [isNone |-> FALSE, idx |-> idx, id |-> it.has_id, name |-> it.has_id,
   description |-> result.augmented_description,
   reasoning |-> result.reasoning, created_at |-> "preview_created_at",
   source_code |-> result.converted_code,
   relevant_symbols |-> result.relevant_symbols]

\* The process's memory before __init__ has run.
NoProcess ==
  [checkpoint |-> ZeroCheckpoint, has_strategy_stats |-> FALSE,
   has_rejection_stats |-> FALSE, rej |-> ZeroRej,
   resume |-> FALSE, samples |-> 0, total_items |-> 0, start_index |-> 0,
   idx |-> 0, batch_num |-> 0, current_batch |-> <<>>, batch_stats |-> <<>>,
   loaded_index |-> -1, invoked |-> <<>>]

\* _load_checkpoint, with the attributes it restores.
LoadCheckpointDropStats(file) ==
  [NoProcess EXCEPT
     !.checkpoint = IF file.exists THEN file.rec ELSE ZeroCheckpoint]

LoadCheckpoint(file) ==
  IF file.exists
    THEN [NoProcess EXCEPT
            !.checkpoint = file.rec,
            !.has_strategy_stats = file.rec.strategy_stats,
            !.has_rejection_stats = file.rec.rejection_stats,
            !.rej = IF file.rec.rejection_stats THEN file.rec.rej ELSE ZeroRej]
    ELSE [NoProcess EXCEPT !.checkpoint = ZeroCheckpoint]

\* _save_checkpoint: the dict written (self.checkpoint is updated in place).
SaveCheckpoint(m) ==
  [m.checkpoint EXCEPT
     !.strategy_stats = m.checkpoint.strategy_stats \/ m.has_strategy_stats,
     !.rejection_stats = m.checkpoint.rejection_stats \/ m.has_rejection_stats,
     !.rej = IF m.has_rejection_stats THEN m.rej ELSE m.checkpoint.rej]

Bump(rej, key) == [rej EXCEPT ![key] = rej[key] + 1]

\* _process_item's except branch (lines 181-185).
ItemExceptUncounted(m) ==
  [processed |-> [NoneRecord EXCEPT !.isNone = FALSE],
   has_strategy_stats |-> m.has_strategy_stats,
   has_rejection_stats |-> TRUE,
   rej |-> Bump(IF m.has_rejection_stats THEN m.rej ELSE ZeroRej, "other")]

ItemExcept(m) ==
  [processed |-> NoneRecord, has_strategy_stats |-> m.has_strategy_stats,
   has_rejection_stats |-> TRUE,
   rej |-> Bump(IF m.has_rejection_stats THEN m.rej ELSE ZeroRej, "other")]

\* The status dispatch of _process_item (lines 139-179), the statistics
\* attributes existing.
StatusDispatchKeepRejected(m, it, idx, result, rej) ==
  [processed |-> ProcessedRecord(it, idx, result),
   has_strategy_stats |-> TRUE, has_rejection_stats |-> TRUE, rej |-> rej]

StatusDispatch(m, it, idx, result, rej) ==
  LET out(r, prc) == [processed |-> prc, has_strategy_stats |-> TRUE,
                      has_rejection_stats |-> TRUE, rej |-> r]
  IN CASE result.status \in {"rejected", "rejected_by_filter", "filter_error"} ->
            out(Bump(rej, "filter"), NoneRecord)
       [] result.status \in {"conversion_failed", "conversion_error"} ->
            out(Bump(rej, "conversion"), NoneRecord)
       [] result.status \in {"validation_failed", "validation_error"} ->
            out(Bump(rej, "validation"), NoneRecord)
       [] result.status = "error" ->
            out(Bump(rej, "other"), NoneRecord)
       [] OTHER -> out(rej, ProcessedRecord(it, idx, result))

\* _process_item(item, index) in a process whose memory is m.
ProcessItemResult(m, it, idx) ==
  LET g == RunGraph(it) IN
  IF g.raised THEN ItemExcept(m)
  \* line 118: self._strategy_stats is read before lines 129-137 create it
  ELSE IF it.trading /\ ~m.has_strategy_stats THEN ItemExcept(m)
  ELSE StatusDispatch(m, it, idx, g.state,
                      IF m.has_rejection_stats THEN m.rej ELSE ZeroRej)

\* _save_batch_to_parquet: the records that go into the artifact.
RECURSIVE SelectSeq2(_, _)
SelectSeq2(s, keepNone) ==
  IF s = <<>> THEN <<>>
  ELSE IF keepNone \/ (~Head(s).isNone /\ Head(s).id /\ Head(s).name)
         THEN <<Head(s)>> \o SelectSeq2(Tail(s), keepNone)
         ELSE SelectSeq2(Tail(s), keepNone)

SuccessfulRecords(batch_data) == SelectSeq2(batch_data, FALSE)

\* _save_batch_to_parquet(batch_data, batch_num): [files, batch_stats] after.
\* Each artifact's name carries the batch number and the time of the write;
\* writes are taken to be at least a second apart, so no write replaces an
\* earlier artifact.
SaveBatch(fs, stats, batch_data, batch_num) ==
  LET ok == SuccessfulRecords(batch_data) IN
  IF batch_data = <<>> \/ ok = <<>>
    THEN [files |-> fs, batch_stats |-> stats]
    ELSE [files |-> Append(fs, [batch_num |-> batch_num, records |-> ok]),
          batch_stats |-> Append(stats,
             [batch_num |-> batch_num, total |-> Len(batch_data),
              accepted |-> Len(ok), rejected |-> Len(batch_data) - Len(ok)])]

Min(a, b) == IF a < b THEN a ELSE b

\* The start index process() computes (line 392).
StartIndexFromZero(resume, ck) == 0

StartIndexAtLoaded(resume, ck) ==
  IF resume /\ ck.last_processed_index >= 0 THEN ck.last_processed_index ELSE 0

StartIndex(resume, ck) == IF resume THEN ck.last_processed_index + 1 ELSE 0

\* ------------------------------------------------- process(): its pieces
\* DataProcessor(input_file) and process() up to the loop (lines 37,
\* 382-400): the memory of the process.  samples = 0: no --samples limit.
StartProcess(file, dat, resume, samples) ==
  LET m == LoadCheckpoint(file)
      total == IF samples > 0 THEN Min(samples, Len(dat)) ELSE Len(dat)
      start == StartIndex(resume, m.checkpoint)
  IN [m EXCEPT !.resume = resume, !.samples = samples,
               !.total_items = total, !.start_index = start,
               !.idx = start, !.batch_num = start \div BATCH_SIZE,
               !.loaded_index = m.checkpoint.last_processed_index]

BatchFull(m) == Len(m.current_batch) >= BATCH_SIZE

\* One iteration of the loop up to the batch test (lines 406-421); idx moves
\* on at once when the batch is not full.
ItemStep(m, dat) ==
  LET r == ProcessItemResult(m, dat[m.idx + 1], m.idx)
      batch == Append(m.current_batch, r.processed)
  IN [m EXCEPT
        !.current_batch = batch,
        !.has_strategy_stats = r.has_strategy_stats,
        !.has_rejection_stats = r.has_rejection_stats,
        !.rej = r.rej,
        !.checkpoint.last_processed_index = m.idx,
        !.checkpoint.processed_count = @ + 1,
        !.checkpoint.rejected_count = IF r.processed.isNone THEN @ + 1 ELSE @,
        !.invoked = Append(@, m.idx),
        !.idx = IF Len(batch) >= BATCH_SIZE THEN @ ELSE @ + 1]

\* Lines 422-424: the full batch is written.
FlushStepDropsBatch(m, fs) ==
  [files |-> fs, p |-> [m EXCEPT !.current_batch = <<>>, !.batch_num = @ + 1]]

FlushStepKeepsBatch(m, fs) ==
  LET sb == SaveBatch(fs, m.batch_stats, m.current_batch, m.batch_num)
  IN [files |-> sb.files,
      p |-> [m EXCEPT !.batch_stats = sb.batch_stats, !.batch_num = @ + 1]]

FlushStep(m, fs) ==
  LET sb == SaveBatch(fs, m.batch_stats, m.current_batch, m.batch_num)
  IN [files |-> sb.files,
      p |-> [m EXCEPT !.batch_stats = sb.batch_stats, !.current_batch = <<>>,
                      !.batch_num = @ + 1]]

\* Line 427: the checkpoint is saved after the batch; the loop moves on.
SaveStep(m) ==
  [file |-> [exists |-> TRUE, complete |-> TRUE, rec |-> SaveCheckpoint(m)],
   p |-> [m EXCEPT !.checkpoint = SaveCheckpoint(m), !.idx = @ + 1]]

\* Lines 430-431: the remaining items are written.
FinalFlushStep(m, fs) ==
  LET sb == SaveBatch(fs, m.batch_stats, m.current_batch, m.batch_num)
  IN [files |-> sb.files, p |-> [m EXCEPT !.batch_stats = sb.batch_stats]]

\* Line 434: the final checkpoint save.
FinalSaveStep(m) ==
  [file |-> [exists |-> TRUE, complete |-> TRUE, rec |-> SaveCheckpoint(m)],
   p |-> [m EXCEPT !.checkpoint = SaveCheckpoint(m)]]

\* ----------------------------------------------------- orchestrator steps
\* What the properties need to know of the processes that have ended:
\*   ended          how many processes have ended
\*   split, k       "first": the one process so far was a completed run
\*                  limited to the first k records, 0 < k < len(data);
\*                  "both": it was followed by a completed resumed run with
\*                  no limit; "other": any other history
\*   all_completed  every process so far was a run of main.py that completed
NoLog == [ended |-> 0, split |-> "none", k |-> 0, all_completed |-> TRUE]

Logged(log, kind, resume, samples, outcome) ==
  LET done == kind = "run" /\ outcome = "completed"
      first == log.split = "none" /\ done /\ samples \in 1..(Len(data) - 1)
      second == log.split = "first" /\ done /\ resume /\ samples = 0
  IN [ended |-> log.ended + 1,
      split |-> IF first THEN "first" ELSE IF second THEN "both" ELSE "other",
      k |-> IF first THEN samples ELSE IF second THEN log.k ELSE 0,
      all_completed |-> log.all_completed /\ done]

\* python main.py <input> [--no-resume] [--samples N]
StartRun(resume, samples) ==
  /\ pc = "idle"
  /\ runlog.ended < MaxRuns
  /\ ~LoadRaises(ckptFile)
  /\ p' = StartProcess(ckptFile, data, resume, samples)
  /\ pc' = "loop"
  /\ UNCHANGED <<data, ckptFile, files, runlog>>
  /\ UNCHANGED <<gvars, cvars>>

ProcessItem ==
  /\ pc = "loop"
  /\ p.idx < p.total_items
  /\ p' = ItemStep(p, data)
  /\ pc' = IF BatchFull(p') THEN "flush" ELSE "loop"
  /\ UNCHANGED <<data, ckptFile, files, runlog>>
  /\ UNCHANGED <<gvars, cvars>>

FlushBatch ==
  /\ pc = "flush"
  /\ files' = FlushStep(p, files).files
  /\ p' = FlushStep(p, files).p
  /\ pc' = "save"
  /\ UNCHANGED <<data, ckptFile, runlog>>
  /\ UNCHANGED <<gvars, cvars>>

SaveAfterBatch ==
  /\ pc = "save"
  /\ ckptFile' = SaveStep(p).file
  /\ p' = SaveStep(p).p
  /\ pc' = "loop"
  /\ UNCHANGED <<data, files, runlog>>
  /\ UNCHANGED <<gvars, cvars>>

FinalFlush ==
  /\ pc = "loop"
  /\ p.idx >= p.total_items
  /\ files' = FinalFlushStep(p, files).files
  /\ p' = FinalFlushStep(p, files).p
  /\ pc' = "final_save"
  /\ UNCHANGED <<data, ckptFile, runlog>>
  /\ UNCHANGED <<gvars, cvars>>

FinalSave ==
  /\ pc = "final_save"
  /\ ckptFile' = FinalSaveStep(p).file
  /\ p' = FinalSaveStep(p).p
  /\ pc' = "report"
  /\ UNCHANGED <<data, files, runlog>>
  /\ UNCHANGED <<gvars, cvars>>

\* Line 437 and the return to main: the report is printed, the process ends.
Report ==
  /\ pc = "report"
  /\ pc' = "idle"
  /\ p' = NoProcess
  /\ runlog' = Logged(runlog, "run", p.resume, p.samples, "completed")
  /\ UNCHANGED <<data, ckptFile, files>>
  /\ UNCHANGED <<gvars, cvars>>

\* main's except KeyboardInterrupt (lines 480-482): the interrupt leaves
\* process() wherever it is; two messages are printed and the process ends.
Interrupt ==
  /\ pc # "idle"
  /\ pc' = "idle"
  /\ p' = NoProcess
  /\ runlog' = Logged(runlog, "run", p.resume, p.samples, "interrupted")
  /\ UNCHANGED <<data, ckptFile, files>>
  /\ UNCHANGED <<gvars, cvars>>

\* checkpoint_manager.py reset (the .bak copy is not modelled).
Reset ==
  /\ pc = "idle"
  /\ runlog.ended < MaxRuns
  /\ ckptFile.exists
  /\ ckptFile' = [exists |-> TRUE, complete |-> TRUE, rec |-> ZeroCheckpoint]
  /\ runlog' = Logged(runlog, "reset", FALSE, 0, "completed")
  /\ UNCHANGED <<data, files, pc, p>>
  /\ UNCHANGED <<gvars, cvars>>

\* checkpoint_manager.py set <index>.
SetIndex(index) ==
  /\ pc = "idle"
  /\ runlog.ended < MaxRuns
  /\ ~LoadRaises(ckptFile)
  /\ ckptFile' = [exists |-> TRUE, complete |-> TRUE,
                  rec |-> [(IF ckptFile.exists THEN ckptFile.rec ELSE ZeroCheckpoint)
                             EXCEPT !.last_processed_index = index]]
  /\ runlog' = Logged(runlog, "set", FALSE, 0, "completed")
  /\ UNCHANGED <<data, files, pc, p>>
  /\ UNCHANGED <<gvars, cvars>>

\* _save_checkpoint in its two steps.  Lines 64-70 and open(checkpoint_file,
\* 'w') of line 72: self.checkpoint is brought up to date and the file is
\* emptied.
OpenCheckpoint ==
  /\ pc \in {"save", "final_save"}
  /\ ckptFile' = TruncatedFile
  /\ p' = [p EXCEPT !.checkpoint = SaveCheckpoint(p)]
  /\ pc' = IF pc = "save" THEN "dump" ELSE "final_dump"
  /\ UNCHANGED <<data, files, runlog>>
  /\ UNCHANGED <<gvars, cvars>>

\* json.dump of line 73 and the close of the file: the document is whole.
DumpCheckpoint ==
  /\ pc \in {"dump", "final_dump"}
  /\ ckptFile' = IF pc = "dump" THEN SaveStep(p).file ELSE FinalSaveStep(p).file
  /\ p' = IF pc = "dump" THEN SaveStep(p).p ELSE FinalSaveStep(p).p
  /\ pc' = IF pc = "dump" THEN "loop" ELSE "report"
  /\ UNCHANGED <<data, files, runlog>>
  /\ UNCHANGED <<gvars, cvars>>

\* python main.py on a checkpoint file that holds no whole document:
\* DataProcessor(input_file) (main line 474, outside the try) calls
\* _load_checkpoint, json.load raises, and the process ends with a traceback.
FailedStart ==
  /\ pc = "idle"
  /\ runlog.ended < MaxRuns
  /\ LoadRaises(ckptFile)
  /\ runlog' = Logged(runlog, "run", TRUE, 0, "failed")
  /\ UNCHANGED <<data, ckptFile, files, pc, p>>
  /\ UNCHANGED <<gvars, cvars>>

\* process() as one call, not interrupted: the loop from memory m on, then
\* the final flush and save.  The result is the output directory after it.
RECURSIVE ProcessLoop(_, _, _, _)
ProcessLoop(m, fs, file, dat) ==
  IF m.idx < m.total_items
    THEN LET m1 == ItemStep(m, dat) IN
         IF BatchFull(m1)
           THEN LET f == FlushStep(m1, fs)
                    sv == SaveStep(f.p)
                IN ProcessLoop(sv.p, f.files, sv.file, dat)
           ELSE ProcessLoop(m1, fs, file, dat)
    ELSE LET f == FinalFlushStep(m, fs)
             sv == FinalSaveStep(f.p)
         IN [files |-> f.files, file |-> sv.file]

\* One uninterrupted run over the whole input from an absent checkpoint.
UninterruptedRun(dat) ==
  ProcessLoop(StartProcess(NoFile, dat, TRUE, 0), <<>>, NoFile, dat)

\* ------------------------------------------------------------ graph steps
\* The executor runs node n: its update is merged into the state and the
\* edge (or decision function) leaving n picks the next node; an exception
\* in the node leaves graph.invoke.
NodeStep(n) ==
  /\ gnode = n
  /\ IF NodeRaises(n, gitem)
       THEN /\ gnode' = RAISED
            /\ UNCHANGED <<gs, gprev, gcalls, gfeedback>>
       ELSE /\ gs' = RunNode(n, gs, gitem)
            /\ gnode' = Edge(n, gs')
            /\ gprev' = n
            /\ gcalls' = IF n = "code_converter" THEN gcalls + 1 ELSE gcalls
            /\ gfeedback' = IF n = "code_converter" THEN gs.error_message
                            ELSE gfeedback
  /\ UNCHANGED gitem
  /\ UNCHANGED <<ovars, cvars>>

Classify == NodeStep("classify")
Filter == NodeStep("filter")
CodeConverter == NodeStep("code_converter")
CodeValidator == NodeStep("code_validator")
DataAugDescription == NodeStep("data_aug_description")
SymbolInfer == NodeStep("symbol_infer")
DataAugReason == NodeStep("data_aug_reason")
Reject == NodeStep("reject")

\* A decision function called on the state as it is, no node having run:
\* the executor goes to the node it names.
Decide(f, next) ==
  /\ gnode = "decide"
  /\ gnode' = next
  /\ gprev' = f
  /\ UNCHANGED <<gitem, gs, gcalls, gfeedback>>
  /\ UNCHANGED <<ovars, cvars>>

ShouldClassifyContinue ==
  Decide("should_classify_continue", should_classify_continue(gs))
ShouldFilter == Decide("should_filter", should_filter(gs))
ShouldRetryConversion ==
  Decide("should_retry_conversion", should_retry_conversion(gs))
ShouldContinueAfterValidation ==
  Decide("should_continue_after_validation", should_continue_after_validation(gs))

\* ---------- data_process_script: convert_language and score_and_filter
\* Both stages hand one task per strategy to a ThreadPoolExecutor and collect
\* the results with as_completed. A strategy is its position in the input
\* list and whether its score meets the quality threshold.
MaxTasks == 3
max_workers == 2

PoolStages == {"convert_language", "score_and_filter"}

NoPool ==
  [pc |-> "idle", stage |-> "convert_language", strategies |-> <<>>,
   queued |-> <<>>, running |-> {}, finished |-> <<>>, collected |-> <<>>,
   result |-> <<>>]

PoolIdle == pool = NoPool

\* [s for s in scored_strategies if s.get("meets_quality_threshold", False)]
RECURSIVE HighQuality(_, _)
HighQuality(strategies, scored) ==
  IF scored = <<>> THEN <<>>
  ELSE IF strategies[Head(scored)]
       THEN <<Head(scored)>> \o HighQuality(strategies, Tail(scored))
       ELSE HighQuality(strategies, Tail(scored))

StageResult(stage, strategies, collected) ==
  IF stage = "score_and_filter" THEN HighQuality(strategies, collected)
  ELSE collected

\* `if not strategies: return []`
PoolCallEmpty ==
  /\ pool.pc = "called"
  /\ pool.strategies = <<>>
  /\ pool' = [pool EXCEPT !.pc = "returned", !.result = <<>>]
  /\ UNCHANGED <<crawlFile, crawler, dp0Data, dp0File, dp0>>
  /\ UNCHANGED <<gvars, ovars>>

\* executor.submit for every strategy, in input order
PoolSubmit ==
  /\ pool.pc = "called"
  /\ pool.strategies # <<>>
  /\ pool' = [pool EXCEPT !.pc = "collect",
                          !.queued = [i \in 1..Len(pool.strategies) |-> i]]
  /\ UNCHANGED <<crawlFile, crawler, dp0Data, dp0File, dp0>>
  /\ UNCHANGED <<gvars, ovars>>

\* a free worker takes the oldest queued task
WorkerStart ==
  /\ pool.pc = "collect"
  /\ pool.queued # <<>>
  /\ Cardinality(pool.running) < max_workers
  /\ pool' = [pool EXCEPT !.queued = Tail(@),
                          !.running = @ \cup {Head(pool.queued)}]
  /\ UNCHANGED <<crawlFile, crawler, dp0Data, dp0File, dp0>>
  /\ UNCHANGED <<gvars, ovars>>

\* a running task's LLM call returns: any of the running tasks may be next
WorkerFinish(i) ==
  /\ pool.pc = "collect"
  /\ i \in pool.running
  /\ pool' = [pool EXCEPT !.running = @ \ {i},
                          !.finished = Append(@, i)]
  /\ UNCHANGED <<crawlFile, crawler, dp0Data, dp0File, dp0>>
  /\ UNCHANGED <<gvars, ovars>>

\* `for future in as_completed(...)`: append the next finished result
PoolCollect ==
  /\ pool.pc = "collect"
  /\ pool.finished # <<>>
  /\ pool' = [pool EXCEPT !.finished = Tail(@),
                          !.collected = Append(@, Head(pool.finished))]
  /\ UNCHANGED <<crawlFile, crawler, dp0Data, dp0File, dp0>>
  /\ UNCHANGED <<gvars, ovars>>

\* every future has been collected: filter (score_and_filter) and return
PoolReturn ==
  /\ pool.pc = "collect"
  /\ Len(pool.collected) = Len(pool.strategies)
  /\ pool' = [pool EXCEPT !.pc = "returned",
                          !.result = StageResult(pool.stage, pool.strategies,
                                                 pool.collected)]
  /\ UNCHANGED <<crawlFile, crawler, dp0Data, dp0File, dp0>>
  /\ UNCHANGED <<gvars, ovars>>

\* ------------------------------------------------ crawler/main_trading.py
\* An entry of the output file and an item of the preview are known by their
\* script_url: 1..MaxUrls, or NoUrl for a preview item that has none.
MaxUrls == 2
Urls == 1..MaxUrls
NoUrl == 0

NoCall == [phase |-> "none", armed |-> FALSE, fired |-> FALSE, pending |-> "none"]

NoCrawler ==
  [pc |-> "idle", overwrite |-> FALSE, use_selenium |-> TRUE, preview |-> <<>>,
   existing_map |-> {}, idx |-> 1, detailed_results |-> <<>>,
   call |-> NoCall, returned |-> "none"]

CrawlerIdle == crawlFile = <<>> /\ crawler = NoCrawler

Range(seq) == {seq[i] : i \in 1..Len(seq)}

DistinctSeqs(S) ==
  {q \in UNION {[1..n -> S] : n \in 0..Cardinality(S)} :
     \A i, j \in 1..Len(q) : i # j => q[i] # q[j]}

PreviewLists == UNION {[1..n -> Urls \cup {NoUrl}] : n \in 1..MaxUrls}

\* load_existing_output: the entries of the file, keyed by script_url
load_existing_output(file) == Range(file)

\* main(): load the existing entries, crawl the preview, start the loop with
\* an empty detailed_results
CrawlerStart(overwrite, use_selenium, preview) ==
  /\ crawler.pc = "idle"
  /\ crawler' = [NoCrawler EXCEPT !.pc = "loop", !.overwrite = overwrite,
                                  !.use_selenium = use_selenium,
                                  !.preview = preview,
                                  !.existing_map = load_existing_output(crawlFile)]
  /\ UNCHANGED <<pool, crawlFile, dp0Data, dp0File, dp0>>
  /\ UNCHANGED <<gvars, ovars>>

CrawlerAtItem ==
  /\ crawler.pc = "loop"
  /\ crawler.idx <= Len(crawler.preview)

\* `if not script_url: continue`
SkipNoUrl ==
  /\ CrawlerAtItem
  /\ crawler.preview[crawler.idx] = NoUrl
  /\ crawler' = [crawler EXCEPT !.idx = @ + 1]
  /\ UNCHANGED <<pool, crawlFile, dp0Data, dp0File, dp0>>
  /\ UNCHANGED <<gvars, ovars>>

\* `if script_url in existing_map and not args.overwrite`: reuse the entry
SkipExisting ==
  /\ CrawlerAtItem
  /\ crawler.preview[crawler.idx] # NoUrl
  /\ crawler.preview[crawler.idx] \in crawler.existing_map
  /\ ~crawler.overwrite
  /\ crawler' = [crawler EXCEPT
                   !.idx = @ + 1,
                   !.detailed_results = Append(@, crawler.preview[crawler.idx])]
  /\ UNCHANGED <<pool, crawlFile, dp0Data, dp0File, dp0>>
  /\ UNCHANGED <<gvars, ovars>>

\* crawl_with_timeout: signal.alarm(timeout_seconds), then call func
BeginCrawl ==
  /\ CrawlerAtItem
  /\ crawler.preview[crawler.idx] # NoUrl
  /\ ~(crawler.preview[crawler.idx] \in crawler.existing_map /\ ~crawler.overwrite)
  /\ crawler' = [crawler EXCEPT
                   !.pc = "call",
                   !.call = [phase |-> "load", armed |-> TRUE, fired |-> FALSE,
                             pending |-> "none"]]
  /\ UNCHANGED <<pool, crawlFile, dp0Data, dp0File, dp0>>
  /\ UNCHANGED <<gvars, ovars>>

\* The wrapped call, extract_detailed_data, in the order it runs:
\*   load    the page is fetched (get_with_selenium up to the click, or the
\*           plain HTTP request)
\*   click   get_with_selenium's inner try around the "Source code" click
\*   render  time.sleep(2) and driver.page_source
\*   parse   extract_detailed_data builds the record
\*   return  the call has returned to crawl_with_timeout, which has not yet
\*           cancelled the alarm
NextPhase(phase, use_selenium) ==
  CASE phase = "load" -> IF use_selenium THEN "click" ELSE "parse"
    [] phase = "click" -> "render"
    [] phase = "render" -> "parse"
    [] OTHER -> "return"

\* the phase ends normally
CallAdvance ==
  /\ crawler.pc = "call"
  /\ crawler.call.phase \in {"load", "click", "render", "parse"}
  /\ crawler' = [crawler EXCEPT
                   !.call.phase = NextPhase(@, crawler.use_selenium),
                   !.call.pending = IF crawler.call.phase = "parse"
                                    THEN "detail" ELSE @]
  /\ UNCHANGED <<pool, crawlFile, dp0Data, dp0File, dp0>>
  /\ UNCHANGED <<gvars, ovars>>

\* An Exception raised in a phase. The click's inner `except Exception` logs
\* it and the call goes on; anywhere else extract_detailed_data's own
\* `except Exception` returns None.
Raised(call) ==
  IF call.phase = "click"
  THEN [call EXCEPT !.phase = "render"]
  ELSE [call EXCEPT !.phase = "return", !.pending = "None"]

CallFails ==
  /\ crawler.pc = "call"
  /\ crawler.call.phase \in {"load", "click", "render", "parse"}
  /\ crawler' = [crawler EXCEPT !.call = Raised(@)]
  /\ UNCHANGED <<pool, crawlFile, dp0Data, dp0File, dp0>>
  /\ UNCHANGED <<gvars, ovars>>

\* SIGALRM: timeout_handler raises TimeoutError, a subclass of Exception, in
\* whatever the main thread is running. In crawl_with_timeout itself the
\* `except TimeoutError` returns None.
AlarmFires ==
  /\ crawler.pc = "call"
  /\ crawler.call.armed
  /\ crawler' = [crawler EXCEPT
                   !.call = IF crawler.call.phase = "return"
                            THEN [@ EXCEPT !.armed = FALSE, !.fired = TRUE,
                                           !.pending = "None"]
                            ELSE [Raised(@)
                                    EXCEPT !.armed = FALSE, !.fired = TRUE]]
  /\ UNCHANGED <<pool, crawlFile, dp0Data, dp0File, dp0>>
  /\ UNCHANGED <<gvars, ovars>>

\* crawl_with_timeout cancels the alarm and returns; main() appends a detail
\* and rewrites the output file with detailed_results
CrawlReturn ==
  /\ crawler.pc = "call"
  /\ crawler.call.phase = "return"
  /\ LET url == crawler.preview[crawler.idx]
         results == IF crawler.call.pending = "detail"
                    THEN Append(crawler.detailed_results, url)
                    ELSE crawler.detailed_results
     IN /\ crawler' = [crawler EXCEPT
                         !.pc = "loop", !.idx = @ + 1,
                         !.call.phase = "none", !.call.armed = FALSE,
                         !.returned = crawler.call.pending,
                         !.detailed_results = results]
        /\ crawlFile' = IF crawler.call.pending = "detail" THEN results
                        ELSE crawlFile
  /\ UNCHANGED <<pool, dp0Data, dp0File, dp0>>
  /\ UNCHANGED <<gvars, ovars>>

\* the final save overwrites the output file with detailed_results
CrawlerFinalSave ==
  /\ crawler.pc = "loop"
  /\ crawler.idx > Len(crawler.preview)
  /\ crawlFile' = crawler.detailed_results
  /\ crawler' = [crawler EXCEPT !.pc = "done"]
  /\ UNCHANGED <<pool, dp0Data, dp0File, dp0>>
  /\ UNCHANGED <<gvars, ovars>>

\* `except KeyboardInterrupt: sys.exit(1)`
CrawlerInterrupt ==
  /\ crawler.pc \in {"loop", "call"}
  /\ crawler' = [crawler EXCEPT !.pc = "interrupted"]
  /\ UNCHANGED <<pool, crawlFile, dp0Data, dp0File, dp0>>
  /\ UNCHANGED <<gvars, ovars>>

\* ---------------------------------------- data_process_0/main.py: resume
\* A record of the input file is whether it has an "id"; the id of the record
\* at (0-based) index i is i + 1, and NoId stands for a missing id.
DP0_BATCH_SIZE == 2
NoId == 0

NoDp0File == [exists |-> FALSE, last_index |-> 0, processed_ids |-> {}]

NoDp0 ==
  [pc |-> "idle", runs |-> 0, completed |-> FALSE, n |-> 0,
   loaded_index |-> 0, loaded_ids |-> {},
   remaining |-> <<>>, pos |-> 0,
   processed_ids |-> {}, last_index |-> 0, invoked |-> <<>>]

Dp0Idle == dp0Data = <<>> /\ dp0File = NoDp0File /\ dp0 = NoDp0

ItemId(d, i) == IF d[i + 1] THEN i + 1 ELSE NoId

\* _load_checkpoint: the file's content, or the empty checkpoint
Dp0LoadCheckpoint(file) ==
  IF file.exists THEN [last_index |-> file.last_index,
                       processed_ids |-> file.processed_ids]
  ELSE [last_index |-> 0, processed_ids |-> {}]

\* `if i >= last_index or item.get("id") not in processed_ids`
RemainingData(d, n, last_index, processed_ids) ==
  SelectSeq([k \in 1..n |-> k - 1],
            LAMBDA i : i >= last_index \/ ItemId(d, i) \notin processed_ids)

\* process_file up to the batch loop; `if not remaining_data: return`
Dp0Start(samples) ==
  /\ dp0.pc = "idle"
  /\ dp0.runs < MaxRuns
  /\ LET ck == Dp0LoadCheckpoint(dp0File)
         n == IF samples # 0 /\ samples < Len(dp0Data) THEN samples
              ELSE Len(dp0Data)
         rem == RemainingData(dp0Data, n, ck.last_index, ck.processed_ids)
     IN dp0' = [pc |-> IF rem = <<>> THEN "idle" ELSE "batches",
                runs |-> dp0.runs + 1,
                completed |-> rem = <<>>,
                n |-> n,
                loaded_index |-> ck.last_index,
                loaded_ids |-> ck.processed_ids,
                remaining |-> rem, pos |-> 0,
                processed_ids |-> ck.processed_ids,
                last_index |-> ck.last_index,
                invoked |-> <<>>]
  /\ UNCHANGED <<pool, crawlFile, crawler, dp0Data, dp0File>>
  /\ UNCHANGED <<gvars, ovars>>

\* one turn of the batch loop: _process_batch invokes the graph on every item
\* of the batch (a raised exception still yields a result holding raw_data),
\* then processed_ids and last_index are updated and the checkpoint is saved
Dp0Batch ==
  /\ dp0.pc = "batches"
  /\ dp0.pos < Len(dp0.remaining)
  /\ LET to == IF dp0.pos + DP0_BATCH_SIZE < Len(dp0.remaining)
               THEN dp0.pos + DP0_BATCH_SIZE ELSE Len(dp0.remaining)
         batch == SubSeq(dp0.remaining, dp0.pos + 1, to)
         new_processed_ids == {ItemId(dp0Data, batch[k]) : k \in 1..Len(batch)}
                                \ {NoId}
         ids == dp0.processed_ids \cup new_processed_ids
         last == IF batch[Len(batch)] + 1 > dp0.last_index
                 THEN batch[Len(batch)] + 1 ELSE dp0.last_index
     IN /\ dp0' = [dp0 EXCEPT !.invoked = @ \o batch,
                              !.processed_ids = ids,
                              !.last_index = last,
                              !.pos = dp0.pos + DP0_BATCH_SIZE]
        /\ dp0File' = [exists |-> TRUE, last_index |-> last,
                       processed_ids |-> ids]
  /\ UNCHANGED <<pool, crawlFile, crawler, dp0Data>>
  /\ UNCHANGED <<gvars, ovars>>

\* the loop is over: _save_results, and process_file returns
Dp0Finish ==
  /\ dp0.pc = "batches"
  /\ dp0.pos >= Len(dp0.remaining)
  /\ dp0' = [dp0 EXCEPT !.pc = "idle", !.completed = TRUE]
  /\ UNCHANGED <<pool, crawlFile, crawler, dp0Data, dp0File>>
  /\ UNCHANGED <<gvars, ovars>>

\* the process is interrupted between two batches
Dp0Interrupt ==
  /\ dp0.pc = "batches"
  /\ dp0' = [dp0 EXCEPT !.pc = "idle"]
  /\ UNCHANGED <<pool, crawlFile, crawler, dp0Data, dp0File>>
  /\ UNCHANGED <<gvars, ovars>>

ComponentsIdle == PoolIdle /\ CrawlerIdle /\ Dp0Idle

\* --------------------------------------------------------- specifications
GraphIdle ==
  /\ gitem = GoodItem
  /\ gnode = END
  /\ gs = initial_state
  /\ gprev = "none"
  /\ gcalls = 0
  /\ gfeedback = None

OrchestratorIdle ==
  /\ data = <<>>
  /\ ckptFile = NoFile
  /\ files = <<>>
  /\ pc = "idle"
  /\ p = NoProcess
  /\ runlog = NoLog

\* The orchestrator: an input file of MaxItems records, no checkpoint, an
\* empty output directory.
Init ==
  /\ GraphIdle
  /\ data \in [1..MaxItems -> SampleItems]
  /\ ckptFile = NoFile
  /\ files = <<>>
  /\ pc = "idle"
  /\ p = NoProcess
  /\ runlog = NoLog
  /\ ComponentsIdle

Next ==
  \/ \E resume \in BOOLEAN, samples \in 0..(MaxItems - 1) : StartRun(resume, samples)
  \/ ProcessItem
  \/ FlushBatch
  \/ SaveAfterBatch
  \/ FinalFlush
  \/ FinalSave
  \/ Report
  \/ Interrupt
  \/ Reset
  \/ \E index \in -1..(MaxItems - 1) : SetIndex(index)

Spec == Init /\ [][Next]_vars

\* The orchestrator with _save_checkpoint taken in its two steps, so that an
\* interrupt (or the death of the process) can fall between them.
CrashItems == {GoodItem, [GoodItem EXCEPT !.cls = "indicator"]}

InitCrash ==
  /\ GraphIdle
  /\ data \in [1..MaxItems -> CrashItems]
  /\ ckptFile = NoFile
  /\ files = <<>>
  /\ pc = "idle"
  /\ p = NoProcess
  /\ runlog = NoLog
  /\ ComponentsIdle

NextCrash ==
  \/ \E resume \in BOOLEAN, samples \in 0..(MaxItems - 1) : StartRun(resume, samples)
  \/ FailedStart
  \/ ProcessItem
  \/ FlushBatch
  \/ OpenCheckpoint
  \/ DumpCheckpoint
  \/ FinalFlush
  \/ Report
  \/ Interrupt
  \/ Reset
  \/ \E index \in -1..(MaxItems - 1) : SetIndex(index)

SpecCrash == InitCrash /\ [][NextCrash]_vars

\* One graph.invoke(initial_state) on any item.
InitGraph ==
  /\ OrchestratorIdle
  /\ gitem \in ItemSpace
  /\ gnode = EntryPoint
  /\ gs = initial_state
  /\ gprev = "none"
  /\ gcalls = 0
  /\ gfeedback = None
  /\ ComponentsIdle

NextGraph ==
  \/ Classify
  \/ Filter
  \/ CodeConverter
  \/ CodeValidator
  \/ DataAugDescription
  \/ SymbolInfer
  \/ DataAugReason
  \/ Reject

SpecGraph == InitGraph /\ [][NextGraph]_vars

\* graph.invoke runs the scheduled node: the executor does not pause between
\* nodes, so a traversal with a node to run does run it.
SpecGraphLive == SpecGraph /\ WF_vars(NextGraph)

\* A stage, or a decision function, called on any DataProcessingState: the
\* values a key can hold (None also stands for a missing key, "" for a
\* missing status), whatever node wrote them.
StatusValues == {"", "pending", "passed_classification", "rejected_by_classifier",
                 "filtered", "unexpected"}

StateSpace ==
  [filter_result : {None, "True", "False"},
   converted_code : {None, "", "code"},
   validation_result : {None, "True", "False"},
   augmented_description : {None}, reasoning : {None},
   relevant_symbols : {None},
   conversion_attempts : 0..MAX_CONVERSION_ATTEMPTS,
   error_message : {None}, status : StatusValues]

\* A record with no source code, as classify_item and convert see it.
NoSourceItem ==
  [GoodItem EXCEPT !.has_source = FALSE, !.cls = "unknown", !.conv_at = 0]

StageItems == {GoodItem, NoSourceItem, [GoodItem EXCEPT !.conv_at = 0]}

InitStage ==
  /\ OrchestratorIdle
  /\ gitem \in StageItems
  /\ gnode \in Nodes \cup {"decide"}
  /\ gs \in StateSpace
  /\ gprev = "none"
  /\ gcalls = 0
  /\ gfeedback = None
  /\ ComponentsIdle

NextStage ==
  \/ ShouldClassifyContinue
  \/ ShouldFilter
  \/ ShouldRetryConversion
  \/ ShouldContinueAfterValidation
  \/ Classify
  \/ Filter
  \/ CodeConverter
  \/ CodeValidator
  \/ DataAugDescription
  \/ SymbolInfer
  \/ DataAugReason
  \/ Reject

SpecStage == InitStage /\ [][NextStage]_vars

\* One call of convert_language or score_and_filter on a list of up to
\* MaxTasks strategies.
InitPool ==
  /\ GraphIdle
  /\ OrchestratorIdle
  /\ CrawlerIdle
  /\ Dp0Idle
  /\ pool \in {[NoPool EXCEPT !.pc = "called", !.stage = st, !.strategies = ss] :
                 st \in PoolStages,
                 ss \in UNION {[1..n -> BOOLEAN] : n \in 0..MaxTasks}}

NextPool ==
  \/ PoolCallEmpty
  \/ PoolSubmit
  \/ WorkerStart
  \/ \E i \in 1..MaxTasks : WorkerFinish(i)
  \/ PoolCollect
  \/ PoolReturn

SpecPool == InitPool /\ [][NextPool]_vars

\* One run of the crawler over any output file left by earlier runs.
InitCrawler ==
  /\ GraphIdle
  /\ OrchestratorIdle
  /\ PoolIdle
  /\ Dp0Idle
  /\ crawlFile \in DistinctSeqs(Urls)
  /\ crawler = NoCrawler

NextCrawler ==
  \/ \E overwrite \in BOOLEAN, use_selenium \in BOOLEAN, preview \in PreviewLists :
       CrawlerStart(overwrite, use_selenium, preview)
  \/ SkipNoUrl
  \/ SkipExisting
  \/ BeginCrawl
  \/ CallAdvance
  \/ CallFails
  \/ AlarmFires
  \/ CrawlReturn
  \/ CrawlerFinalSave
  \/ CrawlerInterrupt

SpecCrawler == InitCrawler /\ [][NextCrawler]_vars

\* Up to MaxRuns runs of data_process_0 over one input file, starting with
\* no checkpoint.
InitDP0 ==
  /\ GraphIdle
  /\ OrchestratorIdle
  /\ PoolIdle
  /\ CrawlerIdle
  /\ dp0Data \in [1..MaxItems -> BOOLEAN]
  /\ dp0File = NoDp0File
  /\ dp0 = NoDp0

NextDP0 ==
  \/ \E samples \in 0..(MaxItems - 1) : Dp0Start(samples)
  \/ Dp0Batch
  \/ Dp0Finish
  \/ Dp0Interrupt

SpecDP0 == InitDP0 /\ [][NextDP0]_vars


\* ------------------------------------------------------------- properties
\* The records of all artifacts, in write order.
RECURSIVE AllRecords(_)
AllRecords(fs) ==
  IF fs = <<>> THEN <<>> ELSE Head(fs).records \o AllRecords(Tail(fs))

RecordSet(fs) == { AllRecords(fs)[i] : i \in 1..Len(AllRecords(fs)) }

\* The traversal of item it ends after data_aug_reason.
Accepted(it) ==
  LET g == RunGraph(it) IN ~g.raised /\ g.state.status = "reasoning_added"

LPI(file) == IF file.exists THEN file.rec.last_processed_index ELSE -1

Columns == {"id", "name", "description", "reasoning", "created_at",
            "source_code", "relevant_symbols"}

\* A first run limited to the first k records, from the absent checkpoint,
\* then a resumed run over the whole input, have completed.
SplitRuns(k) == pc = "idle" /\ runlog.split = "both" /\ runlog.k = k

\* C1  Resumability: a run over [0,k) from the absent checkpoint followed by
\* a resumed run over [k,N) leaves the same set of accepted records in the
\* artifacts, and the same processed_count and rejected_count in the
\* checkpoint, as one uninterrupted run over [0,N).
C1_Resumability ==
  \A k \in 1..(Len(data) - 1) :
    SplitRuns(k) =>
      LET ref == UninterruptedRun(data) IN
        /\ RecordSet(files) = RecordSet(ref.files)
        /\ ckptFile.exists
        /\ ckptFile.rec.processed_count = ref.file.rec.processed_count
        /\ ckptFile.rec.rejected_count = ref.file.rec.rejected_count
        /\ ckptFile.rec.last_processed_index = ref.file.rec.last_processed_index

\* C1 witness: a split run has ended; the resumed part accepted an
\* is_strategy record, and a record was rejected.
C1_Witness ==
  \E k \in 1..(Len(data) - 1) :
    /\ SplitRuns(k)
    /\ \E r \in RecordSet(files) : r.idx >= k /\ data[r.idx + 1].trading
    /\ ckptFile.rec.rejected_count > 0

\* C2  (as claimed) When a process ends by an interrupt after it has
\* processed items (it ends before its report), the checkpoint on disk names
\* the last item it processed and the buffered records are in the artifacts.
C2_InterruptSavesProgress ==
  [][(pc \notin {"idle", "report"} /\ pc' = "idle" /\ p.invoked # <<>>)
      => /\ ckptFile'.exists
         /\ ckptFile'.rec.last_processed_index = p.invoked[Len(p.invoked)]
         /\ \A i \in 1..Len(p.current_batch) :
              (~p.current_batch[i].isNone /\ p.current_batch[i].id)
                => p.current_batch[i] \in RecordSet(files')]_vars

\* C3  (as claimed) No step lowers the persisted last_processed_index.
C3_NeverDecreases == [][LPI(ckptFile') >= LPI(ckptFile)]_vars

\* C3  (amended) No checkpoint write of a run with resume enabled lowers the
\* persisted last_processed_index.
C3_ResumedNeverDecreases ==
  [][(pc # "idle" /\ p.resume) => LPI(ckptFile') >= LPI(ckptFile)]_vars

\* C3 witness: a resumed run that found a checkpoint has saved a larger index.
C3_Witness ==
  /\ pc # "idle" /\ p.resume
  /\ p.loaded_index >= 0
  /\ LPI(ckptFile) > p.loaded_index

\* C4  In a run with resume enabled the indices the item executor is invoked
\* on are last_processed_index + 1, + 2, ... as loaded at startup: none at or
\* below the loaded index, strictly increasing, none twice.
C4_ResumeSkipsProcessed ==
  (pc # "idle" /\ p.resume) =>
    \A i \in 1..Len(p.invoked) : p.invoked[i] = p.loaded_index + i

\* C4 witness: a resumed run that loaded index 0 has processed two items.
C4_Witness ==
  /\ pc # "idle" /\ p.resume
  /\ p.loaded_index = 0
  /\ Len(p.invoked) = 2

\* C5  Retry bound: code_converter is never invoked more than
\* MAX_CONVERSION_ATTEMPTS times, and an item that passed the filter and
\* whose validation always fails has had at least one invocation when its
\* traversal ends, rejected.
C5_RetryBound ==
  /\ gcalls <= MAX_CONVERSION_ATTEMPTS
  /\ (gnode = END /\ Truthy(gs.filter_result) /\ ~gitem.valid)
       => (gcalls >= 1 /\ gs.status = "rejected")

\* C5 witness: the traversal of an item whose validation fails ended after
\* the last allowed invocation.
C5_Witness ==
  /\ gnode = END /\ ~gitem.valid
  /\ gcalls = MAX_CONVERSION_ATTEMPTS
  /\ gs.validation_result = "False"

\* C6  (as claimed) After code_validator has found the code invalid with
\* attempts left, the next node is code_converter.
C6_ValidatorFailureRetries ==
  (gprev = "code_validator" /\ gs.validation_result = "False"
     /\ gs.conversion_attempts < MAX_CONVERSION_ATTEMPTS)
    => gnode = "code_converter"

\* C7  (as claimed) A traversal that ends with the attempts used up and no
\* validation passed ends rejected with error_message "max attempts exceeded".
C7_MaxAttemptsMessage ==
  (gnode = END /\ gs.conversion_attempts = MAX_CONVERSION_ATTEMPTS
     /\ gs.validation_result # "True")
    => (gs.status = "rejected" /\ gs.error_message = "max attempts exceeded")

\* C7  (amended) Such a traversal ends rejected, and its error_message is the
\* reason of the stage that failed last: the converter's error, or the
\* validator's reason when the last attempt produced code; graph.invoke does
\* not raise once the converter has run.
C7_ExhaustionIsRejection ==
  /\ (gnode = END /\ gs.conversion_attempts = MAX_CONVERSION_ATTEMPTS
        /\ gs.validation_result # "True")
       => /\ gs.status = "rejected"
          /\ gs.error_message =
               IF Truthy(gs.converted_code) THEN "Validation failed"
               ELSE IF gitem.has_source THEN "Conversion failed"
               ELSE "No source code found"
  /\ (gnode = RAISED => gcalls = 0)

\* C7 witness: the converter failed MAX_CONVERSION_ATTEMPTS times and the
\* traversal ended.
C7_Witness ==
  /\ gnode = END
  /\ gs.conversion_attempts = MAX_CONVERSION_ATTEMPTS
  /\ gs.converted_code = None

\* The reject node has run, or data_aug_reason has.
Terminal == gprev \in {"reject", "data_aug_reason"}

\* C8  Terminal exclusivity: once the reject node or data_aug_reason has run
\* no node is scheduled, and no step changes the item's state.
C8_TerminalExclusivity ==
  /\ [](Terminal => (gnode = END /\ gs.status \in {"rejected", "reasoning_added"}))
  /\ [][Terminal => (gs' = gs /\ gnode' = gnode)]_vars

\* C8 witness: a traversal has ended in the reject node after a conversion.
C8_Witness == gprev = "reject" /\ gnode = END /\ gcalls > 0

\* Only runs of main.py that completed have ended, and the checkpoint names
\* the last record of the input.
InputCompleted ==
  /\ pc = "idle"
  /\ runlog.ended >= 1
  /\ runlog.all_completed
  /\ LPI(ckptFile) = Len(data) - 1

\* The indices, in input order, of the items whose traversal ends accepted
\* and whose record carries an id and a name.
RECURSIVE AcceptedIndices(_, _)
AcceptedIndices(dat, i) ==
  IF i > Len(dat) THEN <<>>
  ELSE (IF Accepted(dat[i]) /\ dat[i].has_id THEN <<i - 1>> ELSE <<>>)
         \o AcceptedIndices(dat, i + 1)

\* C9  (as claimed) Output purity: once the input is completely processed
\* the artifacts hold, in order, exactly the items whose traversal ended
\* accepted (with an id and a name), each once.
C9_OutputPurity ==
  InputCompleted =>
    [i \in 1..Len(AllRecords(files)) |-> AllRecords(files)[i].idx]
      = AcceptedIndices(data, 1)

\* C10  Every record in an artifact is the record of an item whose
\* traversal ended accepted (not rejected, no error raised), with a
\* non-empty id and name and the seven output columns.
C10_OnlyAcceptedWritten ==
  \A r \in RecordSet(files) :
    /\ ~r.isNone
    /\ r.id /\ r.name
    /\ Columns \subseteq DOMAIN r
    /\ r.idx \in 0..(Len(data) - 1)
    /\ Accepted(data[r.idx + 1])
    /\ r.source_code = "code" /\ r.reasoning = ""

\* C10 witness: the input is processed to its end and an artifact is written,
\* the input holding an item the graph rejects and one it raises on.
C10_Witness ==
  /\ files # <<>>
  /\ LPI(ckptFile) = Len(data) - 1
  /\ \E i, j \in 1..Len(data) : data[i].cls = "indicator" /\ data[j].raises

\* ------------------------------------------------ properties: C11 to C20
\* The step is one call of _process_item, on the record at p.idx.
ItemProcessed == pc = "loop" /\ Len(p'.invoked) = Len(p.invoked) + 1

\* C11  Isolation: when graph.invoke raises on item i the error is caught in
\* _process_item: the process goes on, item i is counted once in
\* processed_count and once in rejected_count and its place in the batch is
\* None; a run that reaches its report has invoked the item executor on
\* every index from its start index to N-1 and has saved its checkpoint.
C11_Isolation ==
  /\ [][(ItemProcessed /\ RunGraph(data[p.idx + 1]).raised)
         => /\ pc' \in {"loop", "flush"}
            /\ p'.invoked = Append(p.invoked, p.idx)
            /\ p'.current_batch = Append(p.current_batch, NoneRecord)
            /\ p'.checkpoint.last_processed_index = p.idx
            /\ p'.checkpoint.processed_count = p.checkpoint.processed_count + 1
            /\ p'.checkpoint.rejected_count = p.checkpoint.rejected_count + 1]_vars
  /\ [](pc = "report"
         => /\ p.invoked = [i \in 1..(p.total_items - p.start_index)
                              |-> p.start_index + i - 1]
            /\ ckptFile.exists /\ ckptFile.rec = p.checkpoint
            /\ (p.invoked # <<>>
                  => ckptFile.rec.last_processed_index = p.total_items - 1))

\* C11 witness: a run has reached its report after graph.invoke raised on an
\* item that was not the last one it processed.
C11_Witness ==
  /\ pc = "report"
  /\ \E i \in 1..(Len(p.invoked) - 1) : data[p.invoked[i] + 1].raises
  /\ p.invoked[Len(p.invoked)] = Len(data) - 1
  /\ ckptFile.rec.rejected_count >= 1

CeilDiv(a, b) == (a + b - 1) \div b

\* One run of main.py has ended, from the absent checkpoint, without a
\* sample limit and not interrupted.
FreshComplete == InputCompleted /\ runlog.ended = 1

\* C12  (as claimed) After a complete run whose artifacts hold M accepted
\* records there are ceil(M / BATCH_SIZE) artifacts, each but the last of
\* exactly BATCH_SIZE records.
C12_BatchSizing ==
  FreshComplete =>
    /\ Len(files) = CeilDiv(Len(AllRecords(files)), BATCH_SIZE)
    /\ \A i \in 1..(Len(files) - 1) : Len(files[i].records) = BATCH_SIZE

\* C12  (amended) A batch is BATCH_SIZE consecutive processed items, the
\* rejected ones included (the last batch may be shorter); an artifact is
\* written for each batch with a record to write and holds those records:
\* every artifact has between 1 and BATCH_SIZE records, and after a complete
\* run over N items there are at most ceil(N / BATCH_SIZE) artifacts, with
\* increasing batch numbers, artifact b holding records of the items
\* b * BATCH_SIZE .. b * BATCH_SIZE + BATCH_SIZE - 1 only.
C12_BatchesOfProcessedItems ==
  /\ \A i \in 1..Len(files) : Len(files[i].records) \in 1..BATCH_SIZE
  /\ FreshComplete =>
       /\ Len(files) <= CeilDiv(Len(data), BATCH_SIZE)
       /\ \A i \in 1..Len(files) :
            /\ \A j \in 1..Len(files[i].records) :
                 files[i].records[j].idx \div BATCH_SIZE = files[i].batch_num
            /\ \A j \in (i + 1)..Len(files) :
                 files[i].batch_num < files[j].batch_num

\* C12 witness: a complete run has written two artifacts for two records.
C12_Witness ==
  /\ FreshComplete
  /\ Len(files) = 2
  /\ Len(AllRecords(files)) = 2

\* The number of records whose traversal does not end accepted.
RejectedByGraph(dat) == Cardinality({i \in 1..Len(dat) : ~Accepted(dat[i])})

\* C13  (as claimed) After a complete run from the absent checkpoint over N
\* records of which R are rejected by the graph, the checkpoint holds
\* last_processed_index = N - 1, processed_count = N, rejected_count = R.
C13_CheckpointCounts ==
  FreshComplete =>
    /\ ckptFile.rec.last_processed_index = Len(data) - 1
    /\ ckptFile.rec.processed_count = Len(data)
    /\ ckptFile.rec.rejected_count = RejectedByGraph(data)

\* C14  (as claimed) After a run over the first k records and its
\* resumption over the rest, the artifacts' batch numbers are strictly
\* increasing in write order: no batch number is used twice.
C14_BatchNumbersMonotonic ==
  \A k \in 1..(Len(data) - 1) :
    SplitRuns(k) =>
      \A i \in 1..Len(files) : \A j \in (i + 1)..Len(files) :
        files[i].batch_num < files[j].batch_num

\* C15  (as claimed) A run started on a checkpoint file that cannot be read
\* treats it as absent: the process starts its loop with the zero-valued
\* record.
C15_CorruptTreatedAsAbsent ==
  [][(pc = "idle" /\ LoadRaises(ckptFile) /\ ckptFile' = ckptFile)
      => (pc' = "loop" /\ p'.checkpoint = ZeroCheckpoint)]_vars

\* C16  (as claimed) Whenever the process has ended, interrupted or not, the
\* checkpoint file holds a whole record.
C16_AtomicSave == pc = "idle" => (ckptFile.exists => ckptFile.complete)

\* A stage that has run met an exception in its work: filter_data,
\* augment_description or infer_relevant_symbols raised.
StageFailed ==
  \/ gitem.filter = "error" /\ gs.filter_result # None
  \/ ~gitem.aug_ok /\ gs.augmented_description # None
  \/ ~gitem.sym_ok /\ gs.relevant_symbols # None

\* C17  (as claimed) No exception leaves graph.invoke, and a traversal in
\* which a stage met an exception ends rejected.
C17_StageFailureRejects ==
  /\ gnode # RAISED
  /\ (gnode = END /\ StageFailed) => gs.status = "rejected"

\* The rejection counters _process_item holds after the dispatch on the
\* traversal's final state, starting from zero.
Breakdown == StatusDispatch(NoProcess, gitem, 0, gs, ZeroRej).rej

\* C20  (as claimed) The rejection of a traversal that ended rejected is
\* counted under the stage that caused it: filter when the filter rejected
\* the item, conversion when no attempt produced code, validation when the
\* code was found invalid; exactly one counter is raised.
C20_BreakdownByStage ==
  (gnode = END /\ gs.status = "rejected") =>
    /\ Breakdown.filter + Breakdown.conversion + Breakdown.validation
         + Breakdown.other = 1
    /\ gs.filter_result = "False" => Breakdown.filter = 1
    /\ (gs.filter_result = "True" /\ ~Truthy(gs.converted_code))
         => Breakdown.conversion = 1
    /\ (Truthy(gs.converted_code) /\ gs.validation_result = "False")
         => Breakdown.validation = 1

\* C18  (as claimed) A decision function called on a state whose status or
\* result is missing or unexpected returns "reject".
C18_DefaultIsReject ==
  /\ (gprev = "should_classify_continue"
        /\ gs.status \notin {"passed_classification", "rejected_by_classifier"})
       => gnode = "reject"
  /\ (gprev = "should_filter" /\ gs.filter_result = None) => gnode = "reject"
  /\ (gprev = "should_continue_after_validation" /\ gs.validation_result = None)
       => gnode = "reject"

\* C18  (amended) Every decision function returns, on every state, a key of
\* its conditional-edge mapping.  should_filter and
\* should_continue_after_validation return "reject" unless their result is
\* truthy; should_retry_conversion without converted code returns "reject"
\* once the attempts are used up and "code_converter" before;
\* should_classify_continue returns "filter" for every status but
\* "rejected_by_classifier", a missing or unexpected one included.
C18_DecisionsTotal ==
  /\ gprev = "should_classify_continue"
       => /\ gnode \in EdgeKeys("classify")
          /\ gnode = "reject" <=> gs.status = "rejected_by_classifier"
  /\ gprev = "should_filter"
       => /\ gnode \in EdgeKeys("filter")
          /\ gnode = "reject" <=> ~Truthy(gs.filter_result)
  /\ gprev = "should_retry_conversion"
       => /\ gnode \in EdgeKeys("code_converter")
          /\ gnode = "code_validator" <=> Truthy(gs.converted_code)
          /\ gnode = "reject" <=>
               (~Truthy(gs.converted_code)
                  /\ gs.conversion_attempts >= MAX_CONVERSION_ATTEMPTS)
  /\ gprev = "should_continue_after_validation"
       => /\ gnode \in EdgeKeys("code_validator")
          /\ gnode = "reject" <=> ~Truthy(gs.validation_result)

\* C18 witness: should_classify_continue, called on a state with an
\* unexpected status, has sent the item on to the filter.
C18_Witness ==
  /\ gprev = "should_classify_continue"
  /\ gs.status = "unexpected"
  /\ gnode = "filter"

\* C19  (as claimed) After code_converter has run on an item with no source
\* code no exception is raised and the next node is reject.
C19_MissingInputRejects ==
  (gprev = "code_converter" /\ ~gitem.has_source) => gnode = "reject"

\* C19  (amended) code_converter on an item with no source code raises no
\* exception and returns a failure update: no converted code, status
\* "conversion_failed", error "No source code found", one more attempt.  The
\* next node is reject only when the attempts are used up, code_converter
\* again before; the validator is never reached from there and the traversal
\* ends rejected.
C19_MissingInputFails ==
  /\ (gprev = "code_converter" /\ ~gitem.has_source)
       => /\ gs.converted_code = None
          /\ gs.status = "conversion_failed"
          /\ gs.error_message = "No source code found"
          /\ gs.conversion_attempts >= gcalls
          /\ gnode = IF gs.conversion_attempts >= MAX_CONVERSION_ATTEMPTS
                        THEN "reject" ELSE "code_converter"
  /\ (gcalls > 0 /\ ~gitem.has_source)
       => /\ gnode \in {"code_converter", "reject", END}
          /\ gnode = END => gs.status = "rejected"

\* C19 witness: code_converter has run a second time on an item with no
\* source code.
C19_Witness ==
  /\ gprev = "code_converter" /\ ~gitem.has_source
  /\ gcalls = 2
  /\ gnode = "code_converter"

\* ------------------------------------------------ properties: C21 to C30
\* C22  conversion_attempts is the number of code_converter invocations made
\* so far: each invocation adds one, with code or without, no other node
\* changes the counter, and it never exceeds MAX_CONVERSION_ATTEMPTS.
C22_AttemptsCountInvocations ==
  /\ [](gs.conversion_attempts = gcalls
         /\ gs.conversion_attempts <= MAX_CONVERSION_ATTEMPTS)
  /\ [][gs'.conversion_attempts =
          IF gnode = "code_converter" THEN gs.conversion_attempts + 1
          ELSE gs.conversion_attempts]_vars

\* C22 witness: two invocations failed, the third produced code, and the
\* traversal went on to its end.
C22_Witness ==
  /\ gnode = END
  /\ gitem.conv_at = 3
  /\ gs.conversion_attempts = 3
  /\ gs.converted_code = "code"

\* The place of a node in the graph's order of stages.
Rank(n) ==
  CASE n = "classify" -> 1
    [] n = "filter" -> 2
    [] n = "code_converter" -> 3
    [] n = "code_validator" -> 4
    [] n = "data_aug_description" -> 5
    [] n = "symbol_infer" -> 6
    [] n = "data_aug_reason" -> 7
    [] n = "reject" -> 8
    [] OTHER -> 9

C27_AcceptedYieldsRecord ==
  [][(ItemProcessed /\ Accepted(data[p.idx + 1]))
      => ~p'.current_batch[Len(p'.current_batch)].isNone]_vars

\* C28  (as claimed) Over runs of main.py alone, every checkpoint the
\* orchestrator writes has processed_count = last_processed_index + 1 and
\* 0 <= rejected_count <= processed_count.
C28_CountsMatchIndex ==
  [][(runlog.all_completed /\ pc # "idle" /\ ckptFile' # ckptFile)
      => /\ ckptFile'.rec.processed_count = ckptFile'.rec.last_processed_index + 1
         /\ ckptFile'.rec.rejected_count >= 0
         /\ ckptFile'.rec.rejected_count <= ckptFile'.rec.processed_count]_vars

RECURSIVE SumTotals(_)
SumTotals(stats) ==
  IF stats = <<>> THEN 0 ELSE Head(stats).total + SumTotals(Tail(stats))

\* C24  (as claimed) Every batch-statistics entry has total = accepted +
\* rejected, and when a run reaches its report the totals of the entries it
\* recorded sum to the number of items it processed.
C24_BatchStatsCoverRun ==
  /\ \A i \in 1..Len(p.batch_stats) :
       p.batch_stats[i].total = p.batch_stats[i].accepted + p.batch_stats[i].rejected
  /\ pc = "report" => SumTotals(p.batch_stats) = Len(p.invoked)

InputOrder(n) == [i \in 1..n |-> i]

C21_PoolOrderInvisible ==
  pool.pc = "returned" =>
    pool.result = StageResult(pool.stage, pool.strategies,
                              InputOrder(Len(pool.strategies)))

\* C25: when the alarm fires during a crawl, the wrapped call is abandoned:
\* crawl_with_timeout returns None with the alarm cancelled and the loop moves
\* on to the next item.
C25_TimeoutAbandonsCall ==
  (crawler.pc = "loop" /\ crawler.call.fired) =>
    (crawler.returned = "None" /\ ~crawler.call.armed)

\* C29: a crawler run without --overwrite never loses an entry that was in
\* the output file when the run started.
C29_ExistingEntriesKept ==
  (crawler.pc # "idle" /\ ~crawler.overwrite) =>
    crawler.existing_map \subseteq Range(crawlFile)

\* C30: a run of data_process_0 that starts from a checkpoint (last_index L,
\* processed_ids P) and completes has invoked the graph on no item with index
\* below L and exactly once on every item from L on, and the last_index in
\* the checkpoint file never falls below L.
Invocations(i) == Cardinality({k \in 1..Len(dp0.invoked) : dp0.invoked[k] = i})

C30_ResumeFromLastIndex ==
  /\ dp0.completed =>
       \A i \in 0..(dp0.n - 1) :
         Invocations(i) = IF i < dp0.loaded_index THEN 0 ELSE 1
  /\ dp0File.last_index >= dp0.loaded_index

====
